---- MODULE Spec2Model ----
(***************************************************************************)
(* A model of the notebook transformer_representation_part_2_exercise:     *)
(*   - TiffDataset (apply_transform, get_mean_std, get_class_weights),     *)
(*   - the shape pipeline dataset -> DINOv2 -> Net.forward -> interpolate, *)
(*   - the dataset cells (train dataset, test dataset),                    *)
(*   - the training cell, the loss-plot cell and the metrics cell,         *)
(*   - the evaluation cells (reset, loop, metrics).                        *)
(*                                                                         *)
(* Five specifications share the variables; each one keeps the variables   *)
(* of the other groups at their initial values.                            *)
(*   WeightsSpec   TiffDataset.get_class_weights on a label volume         *)
(*   PipelineSpec  one source image/mask pair through apply_transform and  *)
(*                 the forward pass                                        *)
(*   DataSpec      the train-dataset and test-dataset cells, __getitem__   *)
(*   Spec          the kernel running the training, plot and metrics cells *)
(*                 one by one, in any order                                *)
(*   EvalSpec      "Run All": the plot, training, metrics and evaluation   *)
(*                 cells once each, in document order                      *)
(*                                                                         *)
(* Floating point values are modelled by exact rationals <<num, den>>.     *)
(***************************************************************************)
EXTENDS Integers, Sequences, FiniteSets

VARIABLES
    \* ---- WeightsSpec: TiffDataset.get_class_weights
    gt_masks,        \* the label volume: label -> number of pixels with it
    class_weights,   \* what get_class_weights returned (a sequence of weights)
    w_pc,            \* "new", then "done" once the weights cell has run
    \* ---- PipelineSpec: apply_transform and the forward pass
    src,             \* the source image/mask pair
    nbatch,          \* b, the number of images in the batch
    p_pc,            \* position in the pipeline
    sample,          \* what apply_transform returned
    features,        \* shape of the DINOv2 features
    out,             \* shape of model(features)
    out_upscaled,    \* shape of F.interpolate(out, size=input_size)
    \* ---- DataSpec: the train-dataset and test-dataset cells
    train_images,    \* train-images.tif: one pixel value per image
    eval_images,     \* eval-images.tif
    train_dataset,   \* the TiffDataset of the training cell: defined, mean, std
    test_dataset,    \* the TiffDataset of the evaluation cell
    mean,            \* the notebook's global mean
    std,             \* the notebook's global std
    d_pc,            \* "idle", or the position inside the test-dataset cell
    yielded,         \* the last sample a dataset yielded
    \* ---- Spec: the kernel running the training, plot and metrics cells
    epochs,          \* hyper-parameter epochs
    batch_size,      \* hyper-parameter batch_size
    n_train,         \* len(train_dataset)
    optim_params,    \* the parameters handed to the optimizer
    pc,              \* "idle", a statement of the training loop, "done", "error"
    runs,            \* executions of the training cell so far
    e,               \* the epoch of the training loop
    batch_idx,       \* the batch index of the training loop
    losses, tps, fps, fns, tns,   \* the accumulated lists
    params,          \* per network, the number of updates of its parameters
    grads,           \* per network, the batch losses summed in its .grad ({} is None)
    graph,           \* the networks the autograd graph of out reaches
    loss,            \* the batch whose loss is held in loss
    events,          \* the optimisation events of the current batch, in order
    applied,         \* per network, the gradient the last optim.step applied
    ax_loss,         \* the loss axes: 0 undefined, else the plot cell's run number
    loss_line,       \* the loss line: its axes (0 is None) and its number of points
    ax_lines,        \* per axes, the lines it holds (each its number of points)
    accs, f1_scores, ious,        \* the rows the metrics cells computed
    n_test,          \* len(test_dataset)
    run_all,         \* TRUE: "Restart & Run All"; FALSE: cells run one by one
    stat_type,       \* what tps, fps, fns, tns are: "undef", "list" or "tensor"
    model_mode,      \* "train", or "eval" after model.eval()
    cell_order,      \* the number of the last cell executed while every cell so
                     \* far was executed once, in document order; else -1
    eval_idx,        \* the batch of the evaluation loop
    metrics_dim      \* dimensions of accs, f1_scores, ious: 2, 1, or 0 (empty list)

wvars == <<gt_masks, class_weights, w_pc>>
pvars == <<src, nbatch, p_pc, sample, features, out, out_upscaled>>
dvars == <<train_images, eval_images, train_dataset, test_dataset, mean, std,
           d_pc, yielded>>
hvars == <<epochs, batch_size, n_train, optim_params, n_test, run_all>>
lvars == <<losses, tps, fps, fns, tns>>
gvars == <<params, grads, graph, loss, events, applied>>
fvars == <<ax_loss, loss_line, ax_lines>>
mvars == <<accs, f1_scores, ious>>
evars == <<stat_type, model_mode, cell_order, eval_idx, metrics_dim>>
nvars == <<hvars, pc, runs, e, batch_idx, lvars, gvars, fvars, mvars, evars>>
vars == <<wvars, pvars, dvars, nvars>>

----------------------------------------------------------------------------
(* Program constants *)

num_classes == 7
feature_dim == 384
patch_size == 14
num_patches == 30
input_size == patch_size * num_patches

OrigSize == 800      \* "Images have a resolution of 800 x 800 pixels"
MaxPixelValue == 255 \* to_dtype(..., scale=True) divides 8-bit pixels by 255

(* Bounds *)
MaxCount == 2        \* pixels per label in a label volume: 0..MaxCount
MaxScale == 3        \* source heights and widths: input_size * k / 2, k in 1..MaxScale
MaxSpot == 1         \* the odd pixel of a source mask lies in rows/columns 0..MaxSpot
MaxBatch == 2        \* images in the batch handed to the forward pass
MaxPixel == 2        \* pixel values of an image volume: 0..MaxPixel
NumImages == 3       \* images in an image volume
MaxEpochs == 2       \* hyper-parameter epochs: 1..MaxEpochs
MaxBatchSize == 2    \* hyper-parameter batch_size: 1..MaxBatchSize
MaxTrain == 6        \* len(train_dataset): 1..MaxTrain
MaxRuns == 2         \* executions of the training cell
MaxPlots == 2        \* executions of the loss-plot cell
MaxTest == 3         \* len(test_dataset): 1..MaxTest

----------------------------------------------------------------------------
(* Helpers *)

Min(a, b) == IF a <= b THEN a ELSE b

MinOf(S) == CHOOSE m \in S : \A x \in S : m <= x

RECURSIVE SortedSeq(_)
SortedSeq(S) == IF S = {} THEN << >>
                ELSE LET m == MinOf(S) IN <<m>> \o SortedSeq(S \ {m})

RECURSIVE Gcd(_, _)
Gcd(a, b) == IF b = 0 THEN a ELSE Gcd(b, a % b)

(* Exact rationals <<num, den>>, den > 0, in lowest terms. *)
Rat(n, d) == LET g == Gcd(IF n < 0 THEN -n ELSE n, d) IN <<n \div g, d \div g>>
RatAdd(a, b) == Rat(a[1] * b[2] + b[1] * a[2], a[2] * b[2])
RatDiv(a, b) == Rat(a[1] * b[2], a[2] * b[1])
RatMul(a, b) == Rat(a[1] * b[1], a[2] * b[2])
RatLess(a, b) == a[1] * b[2] < b[1] * a[2]

RECURSIVE RatSum(_)
RatSum(s) == IF s = << >> THEN <<0, 1>> ELSE RatAdd(s[1], RatSum(Tail(s)))

----------------------------------------------------------------------------
(* TiffDataset.get_class_weights *)

Labels == 0 .. num_classes       \* label values a volume may hold (7 is not a class)

(* np.unique(self.gt_masks, return_counts=True): the labels that occur, sorted,
   and for each the number of pixels holding it. *)
UniqueLabels(masks) == SortedSeq({l \in DOMAIN masks : masks[l] > 0})
UniqueCounts(masks) == LET u == UniqueLabels(masks)
                       IN [i \in 1 .. Len(u) |-> masks[u[i]]]

(* weights = 1 / weights *)
\* variant: the counts are not inverted
ReciprocalMut(c) == <<c, 1>>
Reciprocal(c) == Rat(1, c)

(* weights = weights / weights.sum() *)
Normalize(w) == LET s == RatSum(w) IN [i \in 1 .. Len(w) |-> RatDiv(w[i], s)]

get_class_weights(masks) ==
    LET counts == UniqueCounts(masks)
        weights == [i \in 1 .. Len(counts) |-> Reciprocal(counts[i])]
    IN Normalize(weights)

Volumes == {m \in [Labels -> 0 .. MaxCount] : \E l \in Labels : m[l] > 0}

WInit == /\ gt_masks \in Volumes
         /\ class_weights = << >>
         /\ w_pc = "new"

WOff == /\ gt_masks = [l \in Labels |-> 0]
        /\ class_weights = << >>
        /\ w_pc = "off"

(* class_weights = torch.from_numpy(train_dataset.get_class_weights()) *)
ClassWeightsCell ==
    /\ w_pc = "new"
    /\ class_weights' = get_class_weights(gt_masks)
    /\ w_pc' = "done"
    /\ UNCHANGED <<gt_masks, pvars, dvars, nvars>>

----------------------------------------------------------------------------
(* TiffDataset.apply_transform *)

(* Source heights and widths: the data's 800 and sizes below, at and above
   input_size. *)
ImgDims == {OrigSize} \cup {(input_size * k) \div 2 : k \in 1 .. MaxScale}

(* A source image/mask pair: an h x w image and an h x w mask that holds label
   bg everywhere except for label sl at pixel (sr, sc). *)
Sources == [h : ImgDims, w : ImgDims, bg : Labels, sl : Labels,
            sr : 0 .. MaxSpot, sc : 0 .. MaxSpot]

MaskAt(s, r, c) == IF r = s.sr /\ c = s.sc THEN s.sl ELSE s.bg
SourceLabels(s) == {s.bg, s.sl}

(* resize(..., size=self.input_size) with an int size: the smaller edge is
   matched to size and the other edge keeps the aspect ratio,
   int(size * long / short). The result is <<height, width>>. *)
ResizedSize(h, w, size) ==
    LET short == IF w <= h THEN w ELSE h
        long == IF w <= h THEN h ELSE w
        new_short == size
        new_long == (size * long) \div short
    IN IF w <= h THEN <<new_long, new_short>> ELSE <<new_short, new_long>>

(* InterpolationMode.NEAREST_EXACT: output index i reads source index
   min(floor((i + 0.5) * in / out), in - 1). *)
SrcIndex(i, in, outn) == Min(((2 * i + 1) * in) \div (2 * outn), in - 1)

(* The source indices the resize reads along one axis. Output indices above
   (MaxSpot + 1) * out / in read source indices above MaxSpot, where the mask
   holds bg in every row and column, as does the last output index, so the
   last one stands for them. *)
SampledIndices(in, outn) ==
    {SrcIndex(i, in, outn) :
        i \in 0 .. Min(outn - 1, ((MaxSpot + 1) * outn) \div in)}
    \cup {SrcIndex(outn - 1, in, outn)}

(* The labels of the resized mask. *)
ResizedLabels(s, size) ==
    {MaskAt(s, r, c) : r \in SampledIndices(s.h, size[1]),
                       c \in SampledIndices(s.w, size[2])}

(* torch.arange(7) in the assertion *)
\* variant: the assertion admits one label more
ValidLabelsMut == 0 .. num_classes
ValidLabels == 0 .. num_classes - 1

(* apply_transform: resize image and mask, assert the mask's labels, return
   (image, mask). *)
apply_transform(s) ==
    LET image == ResizedSize(s.h, s.w, input_size)
        mask == ResizedSize(s.h, s.w, input_size)
        labels == ResizedLabels(s, mask)
    IN IF labels \subseteq ValidLabels
       THEN [status |-> "ok", image |-> image, mask |-> mask,
             labels |-> labels, resized |-> labels]
       ELSE [status |-> "AssertionError", image |-> <<0, 0>>, mask |-> <<0, 0>>,
             labels |-> {}, resized |-> labels]

NoSample == [status |-> "none", image |-> <<0, 0>>, mask |-> <<0, 0>>,
             labels |-> {}, resized |-> {}]
NoShape == [status |-> "none", shape |-> << >>]
NoSource == [h |-> 0, w |-> 0, bg |-> 0, sl |-> 0, sr |-> 0, sc |-> 0]

PInit == /\ src \in Sources
         /\ nbatch \in 1 .. MaxBatch
         /\ p_pc = "raw"
         /\ sample = NoSample
         /\ features = NoShape /\ out = NoShape /\ out_upscaled = NoShape

POff == /\ src = NoSource /\ nbatch = 0 /\ p_pc = "off" /\ sample = NoSample
        /\ features = NoShape /\ out = NoShape /\ out_upscaled = NoShape

(* __getitem__ for every image of the batch: all images of a volume have the
   same height and width. *)
GetItem ==
    /\ p_pc = "raw"
    /\ sample' = apply_transform(src)
    /\ p_pc' = IF sample'.status = "ok" THEN "sample" ELSE "failed"
    /\ UNCHANGED <<src, nbatch, features, out, out_upscaled, wvars, dvars, nvars>>

(* dinov2.get_intermediate_layers(image, 1, return_class_token=False)[0]: the
   patch embedding needs height and width divisible by the patch size and gives
   one token per patch: b x (h/14 * w/14) x 384. *)
GetFeatures ==
    /\ p_pc = "sample"
    /\ LET h == sample.image[1]
           w == sample.image[2]
       IN IF h % patch_size = 0 /\ w % patch_size = 0
          THEN /\ features' = [status |-> "ok",
                    shape |-> <<nbatch, (h \div patch_size) * (w \div patch_size),
                                feature_dim>>]
               /\ p_pc' = "features"
          ELSE /\ features' = [status |-> "AssertionError", shape |-> << >>]
               /\ p_pc' = "failed"
    /\ UNCHANGED <<src, nbatch, sample, out, out_upscaled, wvars, dvars, nvars>>

(* x.reshape(-1, self.input_dim, self.input_dim, self.in_channels): the first
   dimension is the number of elements divided by the product of the others. *)
ReshapeGrids(shape) ==
    LET total == shape[1] * shape[2] * shape[3]
        per == num_patches * num_patches * feature_dim
    IN IF total % per = 0 THEN total \div per ELSE -1

(* Net.forward: reshape, permute, then convolutions that keep the grid size
   (kernel 3 with padding 1, kernel 1) and end in n_classes channels. *)
NetForward ==
    /\ p_pc = "features"
    /\ LET grids == ReshapeGrids(features.shape)
       IN IF grids >= 0
          THEN /\ out' = [status |-> "ok",
                    shape |-> <<grids, num_classes, num_patches, num_patches>>]
               /\ p_pc' = "out"
          ELSE /\ out' = [status |-> "RuntimeError", shape |-> << >>]
               /\ p_pc' = "failed"
    /\ UNCHANGED <<src, nbatch, sample, features, out_upscaled, wvars, dvars, nvars>>

(* F.interpolate(out, size=input_size, mode="bilinear"): an int size is the
   size of both spatial dimensions. *)
Interpolate ==
    /\ p_pc = "out"
    /\ out_upscaled' = [status |-> "ok",
            shape |-> <<out.shape[1], out.shape[2], input_size, input_size>>]
    /\ p_pc' = "upscaled"
    /\ UNCHANGED <<src, nbatch, sample, features, out, wvars, dvars, nvars>>

(* The ground-truth masks of the batch as the loss and metrics.get_stats see
   them: b x mask height x mask width. *)
GtMasksShape == <<nbatch, sample.mask[1], sample.mask[2]>>

----------------------------------------------------------------------------
(* The dataset cells: TiffDataset.__init__, get_mean_std, __getitem__ *)

(* The pixel values of the volumes: the low ones and the 8-bit maximum. *)
PixelValues == (0 .. MaxPixel) \cup {MaxPixelValue}

(* An image volume, one pixel value per image, listed in ascending order:
   get_mean_std does not depend on the order of the images. *)
ImageVolumes == {v \in [1 .. NumImages -> PixelValues] :
                    \A i \in 1 .. NumImages - 1 : v[i] <= v[i + 1]}

NaN == <<0, 0>>

RECURSIVE SeqSum(_)
SeqSum(s) == IF s = << >> THEN 0 ELSE s[1] + SeqSum(Tail(s))

SeqMin(v) == MinOf({v[i] : i \in DOMAIN v})
SeqMax(v) == CHOOSE m \in {v[i] : i \in DOMAIN v} : \A i \in DOMAIN v : v[i] <= m

(* scaled_imgs = (self.images - _min) / (_max - _min), NaN in every pixel of a
   volume of one value (0 / 0). *)
scaled_imgs(images) ==
    LET lo == SeqMin(images)
        hi == SeqMax(images)
    IN [i \in DOMAIN images |->
            IF hi = lo THEN NaN ELSE Rat(images[i] - lo, hi - lo)]

(* get_mean_std: scaled_imgs = (images - _min) / (_max - _min); the result is
   <<scaled_imgs.mean(), scaled_imgs.std()>>, the second as its square (the
   variance), both NaN for a volume of one value (0 / 0 in every pixel). *)
get_mean_std(images) ==
    LET n == Len(images)
        lo == SeqMin(images)
        hi == SeqMax(images)
        shifted == [i \in 1 .. n |-> images[i] - lo]
        total == SeqSum(shifted)
        dev == [i \in 1 .. n |-> (n * shifted[i] - total) * (n * shifted[i] - total)]
    IN IF hi = lo THEN <<NaN, NaN>>
       ELSE <<Rat(total, n * (hi - lo)),
              Rat(SeqSum(dev), n * n * n * (hi - lo) * (hi - lo))>>

(* TiffDataset.__init__: the images and the statistics derived from them. *)
TiffDataset(images) ==
    [defined |-> TRUE, images |-> images,
     mean |-> get_mean_std(images)[1], std |-> get_mean_std(images)[2]]

NoDataset == [defined |-> FALSE, images |-> << >>, mean |-> NaN, std |-> NaN]

(* __getitem__(index) -> apply_transform: the pixel scaled by to_dtype, then
   normalize(image, self.mean, self.std), kept as its three operands. *)
getitem(name, ds, index) ==
    [ds |-> name, index |-> index,
     scaled |-> Rat(ds.images[index + 1], MaxPixelValue),
     mean |-> ds.mean, std |-> ds.std]

NoYield == [ds |-> "none", index |-> 0, scaled |-> NaN, mean |-> NaN, std |-> NaN]

DInit == /\ train_images \in ImageVolumes
         /\ eval_images \in ImageVolumes
         /\ train_dataset = NoDataset
         /\ test_dataset = NoDataset
         /\ mean = NaN /\ std = NaN
         /\ d_pc = "idle"
         /\ yielded = NoYield

DOff == /\ train_images = << >> /\ eval_images = << >>
        /\ train_dataset = NoDataset /\ test_dataset = NoDataset
        /\ mean = NaN /\ std = NaN
        /\ d_pc = "off"
        /\ yielded = NoYield

(* Cell fa6eb88d: train_dataset = TiffDataset(...); train_dataset.plot_sample(cm),
   which reads sample 0. *)
TrainDatasetCell ==
    /\ d_pc = "idle"
    /\ train_dataset' = TiffDataset(train_images)
    /\ yielded' = getitem("train", train_dataset', 0)
    /\ UNCHANGED <<train_images, eval_images, test_dataset, mean, std, d_pc,
                   wvars, pvars, nvars>>

(* Cell 4253706a, first statements: mean = train_dataset.mean;
   std = train_dataset.std. *)
TestCellRead ==
    /\ d_pc = "idle"
    /\ train_dataset.defined
    /\ mean' = train_dataset.mean
    /\ std' = train_dataset.std
    /\ d_pc' = "construct"
    /\ UNCHANGED <<train_images, eval_images, train_dataset, test_dataset,
                   yielded, wvars, pvars, nvars>>

(* test_dataset = TiffDataset(eval images, ..., train=False) *)
TestCellConstruct ==
    /\ d_pc = "construct"
    /\ test_dataset' = TiffDataset(eval_images)
    /\ d_pc' = "override"
    /\ UNCHANGED <<train_images, eval_images, train_dataset, mean, std,
                   yielded, wvars, pvars, nvars>>

(* test_dataset.mean = mean; test_dataset.std = std; test_loader = ... *)
\* variant: the constructor's statistics are left in place
TestCellOverrideMut ==
    /\ d_pc = "override"
    /\ d_pc' = "idle"
    /\ UNCHANGED <<train_images, eval_images, train_dataset, test_dataset,
                   mean, std, yielded, wvars, pvars, nvars>>
TestCellOverride ==
    /\ d_pc = "override"
    /\ test_dataset' = [test_dataset EXCEPT !.mean = mean, !.std = std]
    /\ d_pc' = "idle"
    /\ UNCHANGED <<train_images, eval_images, train_dataset, mean, std,
                   yielded, wvars, pvars, nvars>>

(* A sample read from train_dataset, through train_loader or __getitem__. *)
TrainGetItem ==
    /\ d_pc = "idle"
    /\ train_dataset.defined
    /\ \E index \in 0 .. Len(train_dataset.images) - 1 :
          yielded' = getitem("train", train_dataset, index)
    /\ UNCHANGED <<train_images, eval_images, train_dataset, test_dataset,
                   mean, std, d_pc, wvars, pvars, nvars>>

(* A sample read from test_dataset, through test_loader or __getitem__. *)
TestGetItem ==
    /\ d_pc = "idle"
    /\ test_dataset.defined
    /\ \E index \in 0 .. Len(test_dataset.images) - 1 :
          yielded' = getitem("test", test_dataset, index)
    /\ UNCHANGED <<train_images, eval_images, train_dataset, test_dataset,
                   mean, std, d_pc, wvars, pvars, nvars>>

----------------------------------------------------------------------------
(* The training cell 14a8dcab, the loss-plot cell 3918e71b and the metrics
   cell 4fd50929 *)

Networks == {"dinov2", "model"}

(* num_batches = len(train_loader): DataLoader(train_dataset, batch_size)
   keeps the last, smaller batch. *)
num_batches == (n_train + batch_size - 1) \div batch_size

(* The number of images in batch b of an epoch. *)
BatchLen(b) == Min(batch_size, n_train - b * batch_size)

(* What one batch contributes to a list: which statistic, of which execution
   of the training cell, epoch and batch, over how many images. *)
Entry(kind, ep, b) ==
    [kind |-> kind, run |-> runs, e |-> ep, b |-> b, n |-> BatchLen(b)]

(* with torch.no_grad(): features = dinov2.get_intermediate_layers(...):
   the features carry no autograd graph. *)
\* variant: the features are computed outside the no-gradient context
FeaturesRequireGradMut == TRUE
FeaturesRequireGrad == FALSE

(* The statements of the loop body, in program order. *)
\* variant: optim.zero_grad() is missing
TrainStatementsMut ==
    <<"fwd", "loss", "backward", "step", "stats", "log">>
TrainStatements ==
    <<"fwd", "loss", "zero_grad", "backward", "step", "stats", "log">>

(* The statement after statement p of the loop body. *)
After(p) == LET i == CHOOSE k \in 1 .. Len(TrainStatements) : TrainStatements[k] = p
            IN TrainStatements[i + 1]

KernelIdle == pc \in {"idle", "done", "error", "evaluated"}

(* The cells in document order: 1 loss plot, 2 training, 3 metrics, 4 evaluation
   reset, 5 evaluation loop, 6 evaluation metrics. The order after cell k is
   executed. *)
OrderAfter(k) == IF cell_order = k - 1 THEN k ELSE -1

(* Cell k can be executed: the kernel is idle; under "Run All" the cells before
   it have run, and an exception stops the run. *)
CanRun(k) == /\ KernelIdle
             /\ run_all => (cell_order = k - 1 /\ pc # "error")

NoLine == [ax |-> 0, n |-> 0]

(* The hyper-parameter cells and the dataset lengths, for the training cells
   and for the whole notebook. *)
TrainParams == /\ epochs \in 1 .. MaxEpochs
               /\ batch_size \in 1 .. MaxBatchSize
               /\ n_train \in 1 .. MaxTrain
               /\ optim_params \in (SUBSET Networks) \ {{}}
               /\ n_test = 0
               /\ run_all = FALSE
EvalParams == /\ epochs \in 1 .. MaxEpochs
              /\ batch_size \in 1 .. MaxBatchSize
              /\ n_train \in 1 .. MaxTrain
              /\ optim_params \in (SUBSET Networks) \ {{}}
              /\ n_test \in 1 .. MaxTest
              /\ run_all = TRUE

NInit == /\ stat_type = "undef" /\ model_mode = "train" /\ cell_order = 0
         /\ eval_idx = 0 /\ metrics_dim = 0
         /\ pc = "idle" /\ runs = 0 /\ e = 0 /\ batch_idx = 0
         /\ losses = << >> /\ tps = << >> /\ fps = << >> /\ fns = << >> /\ tns = << >>
         /\ params = [p \in Networks |-> 0]
         /\ grads = [p \in Networks |-> {}]
         /\ graph = {} /\ loss = << >> /\ events = << >>
         /\ applied = [p \in Networks |-> {}]
         /\ ax_loss = 0 /\ loss_line = NoLine
         /\ ax_lines = [a \in 1 .. MaxPlots |-> << >>]
         /\ accs = << >> /\ f1_scores = << >> /\ ious = << >>

NOff == /\ epochs = 0 /\ batch_size = 0 /\ n_train = 0 /\ optim_params = {}
        /\ n_test = 0 /\ run_all = FALSE
        /\ stat_type = "undef" /\ model_mode = "train" /\ cell_order = 0
        /\ eval_idx = 0 /\ metrics_dim = 0
        /\ pc = "off" /\ runs = 0 /\ e = 0 /\ batch_idx = 0
        /\ losses = << >> /\ tps = << >> /\ fps = << >> /\ fns = << >> /\ tns = << >>
        /\ params = [p \in Networks |-> 0]
        /\ grads = [p \in Networks |-> {}]
        /\ graph = {} /\ loss = << >> /\ events = << >>
        /\ applied = [p \in Networks |-> {}]
        /\ ax_loss = 0 /\ loss_line = NoLine
        /\ ax_lines = [a \in 1 .. MaxPlots |-> << >>]
        /\ accs = << >> /\ f1_scores = << >> /\ ious = << >>

(* Cell 3918e71b: fig_loss, ax_loss = plt.subplots(...); loss_line = None *)
PlotCell ==
    /\ CanRun(1)
    /\ ax_loss < MaxPlots
    /\ ax_loss' = ax_loss + 1
    /\ loss_line' = NoLine
    /\ cell_order' = OrderAfter(1)
    /\ UNCHANGED <<ax_lines, hvars, pc, runs, e, batch_idx, lvars, gvars, mvars,
                   stat_type, model_mode, eval_idx, metrics_dim,
                   wvars, pvars, dvars>>

(* Cell 14a8dcab up to the first batch: losses = []; tps, fps, fns, tns = [], ...;
   the loops start at e = 0, batch_idx = 0. *)
\* variant: the lists are not emptied
TrainStartMut ==
    /\ CanRun(2)
    /\ runs < MaxRuns
    /\ runs' = runs + 1
    /\ e' = 0 /\ batch_idx' = 0
    /\ pc' = TrainStatements[1]
    /\ events' = << >>
    /\ cell_order' = OrderAfter(2)
    /\ UNCHANGED <<lvars, hvars, params, grads, graph, loss, applied, fvars, mvars,
                   stat_type, model_mode, eval_idx, metrics_dim,
                   wvars, pvars, dvars>>
TrainStart ==
    /\ CanRun(2)
    /\ runs < MaxRuns
    /\ runs' = runs + 1
    /\ losses' = << >>
    /\ tps' = << >> /\ fps' = << >> /\ fns' = << >> /\ tns' = << >>
    /\ e' = 0 /\ batch_idx' = 0
    /\ pc' = TrainStatements[1]
    /\ events' = << >>
    /\ stat_type' = "list"
    /\ cell_order' = OrderAfter(2)
    /\ UNCHANGED <<hvars, params, grads, graph, loss, applied, fvars, mvars,
                   model_mode, eval_idx, metrics_dim,
                   wvars, pvars, dvars>>

(* features (under no_grad), out = model(features), out_upscaled: the graph of
   out reaches the head, and the transformer only if the features carry one. *)
Forward ==
    /\ pc = "fwd"
    /\ graph' = {"model"} \cup (IF FeaturesRequireGrad THEN {"dinov2"} ELSE {})
    /\ events' = <<"forward">>
    /\ pc' = After("fwd")
    /\ UNCHANGED <<hvars, runs, e, batch_idx, lvars, params, grads, loss, applied,
                   fvars, mvars, wvars, pvars, dvars, evars>>

(* loss = loss_fn(out_upscaled, gt_masks) *)
Loss ==
    /\ pc = "loss"
    /\ loss' = <<runs, e, batch_idx>>
    /\ events' = Append(events, "loss")
    /\ pc' = After("loss")
    /\ UNCHANGED <<hvars, runs, e, batch_idx, lvars, params, grads, graph, applied,
                   fvars, mvars, wvars, pvars, dvars, evars>>

(* optim.zero_grad(): the .grad of every parameter of the optimizer is reset. *)
ZeroGrad ==
    /\ pc = "zero_grad"
    /\ grads' = [p \in Networks |-> IF p \in optim_params THEN {} ELSE grads[p]]
    /\ events' = Append(events, "zero_grad")
    /\ pc' = After("zero_grad")
    /\ UNCHANGED <<hvars, runs, e, batch_idx, lvars, params, graph, loss, applied,
                   fvars, mvars, wvars, pvars, dvars, evars>>

(* loss.backward(): the gradient of loss is added to the .grad of every
   parameter the graph reaches. *)
Backward ==
    /\ pc = "backward"
    /\ grads' = [p \in Networks |-> IF p \in graph THEN grads[p] \cup {loss}
                                    ELSE grads[p]]
    /\ events' = Append(events, "backward")
    /\ pc' = After("backward")
    /\ UNCHANGED <<hvars, runs, e, batch_idx, lvars, params, graph, loss, applied,
                   fvars, mvars, wvars, pvars, dvars, evars>>

(* optim.step(): every parameter of the optimizer whose .grad is not None is
   updated with it. *)
Step ==
    /\ pc = "step"
    /\ params' = [p \in Networks |->
                    IF p \in optim_params /\ grads[p] # {} THEN params[p] + 1
                    ELSE params[p]]
    /\ applied' = [p \in Networks |-> IF p \in optim_params THEN grads[p] ELSE {}]
    /\ events' = Append(events, "step")
    /\ pc' = After("step")
    /\ UNCHANGED <<hvars, runs, e, batch_idx, lvars, grads, graph, loss,
                   fvars, mvars, wvars, pvars, dvars, evars>>

(* tp, fp, fn, tn = metrics.get_stats(...); tps.append(tp); ...; tns.append(tn) *)
Stats ==
    /\ pc = "stats"
    /\ tps' = Append(tps, Entry("tp", e, batch_idx))
    /\ fps' = Append(fps, Entry("fp", e, batch_idx))
    /\ fns' = Append(fns, Entry("fn", e, batch_idx))
    /\ tns' = Append(tns, Entry("tn", e, batch_idx))
    /\ pc' = After("stats")
    /\ UNCHANGED <<hvars, runs, e, batch_idx, losses, gvars, fvars, mvars,
                   wvars, pvars, dvars, evars>>

(* if batch_idx == 0 or batch_idx % 5 == 0: the batches that update the plot. *)
\* variant: only the first batch of an epoch updates the plot
PlotDueMut(b) == b = 0
PlotDue(b) == b = 0 \/ b % 5 = 0

(* The lines of axes a after the line loss_line is removed from its axes. *)
\* variant: the previous line is left on its axes
RemoveLineMut(lines, line) == lines
RemoveLine(lines, line) ==
    IF line.ax = 0 THEN lines
    ELSE [lines EXCEPT ![line.ax] =
            LET i == CHOOSE k \in 1 .. Len(@) : @[k] = line.n
            IN SubSeq(@, 1, i - 1) \o SubSeq(@, i + 1, Len(@))]

(* losses.append(loss.item()); on every fifth batch the plot update; then the
   next batch, the next epoch, or the end of the cell. Without the plot cell
   the update raises a NameError. *)
Log ==
    /\ pc = "log"
    /\ losses' = Append(losses, Entry("loss", e, batch_idx))
    /\ IF PlotDue(batch_idx)
       THEN IF ax_loss = 0
            THEN /\ pc' = "error"
                 /\ UNCHANGED <<fvars, e, batch_idx>>
            ELSE /\ loss_line' = [ax |-> ax_loss, n |-> Len(losses')]
                 /\ ax_lines' = [RemoveLine(ax_lines, loss_line) EXCEPT
                                    ![ax_loss] = Append(@, Len(losses'))]
                 /\ UNCHANGED ax_loss
                 /\ IF batch_idx + 1 < num_batches
                    THEN /\ batch_idx' = batch_idx + 1
                         /\ pc' = TrainStatements[1]
                         /\ UNCHANGED e
                    ELSE IF e + 1 < epochs
                    THEN /\ e' = e + 1 /\ batch_idx' = 0
                         /\ pc' = TrainStatements[1]
                    ELSE /\ pc' = "done"
                         /\ UNCHANGED <<e, batch_idx>>
       ELSE /\ UNCHANGED fvars
            /\ IF batch_idx + 1 < num_batches
               THEN /\ batch_idx' = batch_idx + 1
                    /\ pc' = TrainStatements[1]
                    /\ UNCHANGED e
               ELSE IF e + 1 < epochs
               THEN /\ e' = e + 1 /\ batch_idx' = 0
                    /\ pc' = TrainStatements[1]
               ELSE /\ pc' = "done"
                    /\ UNCHANGED <<e, batch_idx>>
    /\ UNCHANGED <<hvars, runs, tps, fps, fns, tns, gvars, mvars,
                   wvars, pvars, dvars, evars>>

(* lst[i : j] *)
Slice(lst, i, j) == SubSeq(lst, i + 1, Min(j, Len(lst)))

(* range(0, n, step) *)
RangeFrom0(n, step) == [k \in 1 .. (n + step - 1) \div step |-> (k - 1) * step]

(* The step of the metrics loop: range(0, len(tps), num_batches). *)
\* variant: the loop steps by batch_size
ChunkStepMut == batch_size
ChunkStep == num_batches

(* The row a metric appends for the chunk starting at i: the metric of the
   concatenated chunks of the four lists, averaged over the images. *)
MetricRow(metric, i) ==
    [metric |-> metric,
     tp |-> Slice(tps, i, i + ChunkStep), fp |-> Slice(fps, i, i + ChunkStep),
     fn |-> Slice(fns, i, i + ChunkStep), tn |-> Slice(tns, i, i + ChunkStep)]

(* Cell 4fd50929: accs, f1_scores, ious = [], [], []; then one row of each
   per chunk. With tps undefined or a tensor the loop raises and the three
   lists stay empty. *)
MetricsCell ==
    /\ CanRun(3)
    /\ LET starts == IF stat_type = "list" THEN RangeFrom0(Len(tps), ChunkStep)
                     ELSE << >>
       IN /\ accs' = [k \in DOMAIN starts |-> MetricRow("accuracy", starts[k])]
          /\ f1_scores' = [k \in DOMAIN starts |-> MetricRow("f1_score", starts[k])]
          /\ ious' = [k \in DOMAIN starts |-> MetricRow("iou_score", starts[k])]
          /\ metrics_dim' = IF starts = << >> THEN 0 ELSE 2
    /\ cell_order' = OrderAfter(3)
    /\ UNCHANGED <<hvars, pc, runs, e, batch_idx, lvars, gvars, fvars,
                   stat_type, model_mode, eval_idx, wvars, pvars, dvars>>

(* The evaluation cells 91ab90bd, 4097eabd (stub) and 89cac04d *)

(* len(test_loader): DataLoader(test_dataset, batch_size, shuffle=False) *)
num_test_batches == (n_test + batch_size - 1) \div batch_size

(* What test batch b contributes to a list (epoch -1 marks evaluation). *)
EvalEntry(kind, b) ==
    [kind |-> kind, run |-> runs, e |-> -1, b |-> b,
     n |-> Min(batch_size, n_test - b * batch_size)]

(* Cell 91ab90bd: losses = []; tps, fps, fns, tns = [], [], [], [];
   model.eval() *)
\* variant: the lists are not emptied
EvalResetCellMut ==
    /\ CanRun(4)
    /\ stat_type' = IF stat_type = "undef" THEN "list" ELSE stat_type
    /\ model_mode' = "eval"
    /\ cell_order' = OrderAfter(4)
    /\ UNCHANGED <<lvars, hvars, pc, runs, e, batch_idx, gvars, fvars, mvars,
                   eval_idx, metrics_dim, wvars, pvars, dvars>>
EvalResetCell ==
    /\ CanRun(4)
    /\ losses' = << >>
    /\ tps' = << >> /\ fps' = << >> /\ fns' = << >> /\ tns' = << >>
    /\ stat_type' = "list"
    /\ model_mode' = "eval"
    /\ cell_order' = OrderAfter(4)
    /\ UNCHANGED <<hvars, pc, runs, e, batch_idx, gvars, fvars, mvars,
                   eval_idx, metrics_dim, wvars, pvars, dvars>>

(* Cell 4097eabd: for image, gt_masks in test_loader. Appending to a tensor or
   to an undefined name raises in the first iteration. *)
EvalStart ==
    /\ CanRun(5)
    /\ stat_type = "list"
    /\ eval_idx' = 0
    /\ pc' = "eval"
    /\ cell_order' = OrderAfter(5)
    /\ UNCHANGED <<hvars, runs, e, batch_idx, lvars, gvars, fvars, mvars,
                   stat_type, model_mode, metrics_dim, wvars, pvars, dvars>>

(* One iteration of the evaluation loop: features and out under no_grad, the
   loss, the statistics and the loss appended; no zero_grad, backward or step. *)
EvalBatch ==
    /\ pc = "eval"
    /\ graph' = {}
    /\ loss' = <<runs, -1, eval_idx>>
    /\ tps' = Append(tps, EvalEntry("tp", eval_idx))
    /\ fps' = Append(fps, EvalEntry("fp", eval_idx))
    /\ fns' = Append(fns, EvalEntry("fn", eval_idx))
    /\ tns' = Append(tns, EvalEntry("tn", eval_idx))
    /\ losses' = Append(losses, EvalEntry("loss", eval_idx))
    /\ IF eval_idx + 1 < num_test_batches
       THEN /\ eval_idx' = eval_idx + 1
            /\ UNCHANGED pc
       ELSE /\ pc' = "evaluated"
            /\ UNCHANGED eval_idx
    /\ UNCHANGED <<hvars, runs, e, batch_idx, params, grads, events, applied,
                   fvars, mvars, stat_type, model_mode, cell_order, metrics_dim,
                   wvars, pvars, dvars>>

(* torch.concat(lst): one row per image of every entry, in order. *)
RECURSIVE Concat(_)
Concat(lst) ==
    IF lst = << >> THEN << >>
    ELSE [i \in 1 .. lst[1].n |-> [lst[1] EXCEPT !.n = 1]] \o Concat(Tail(lst))

(* Cell 89cac04d: tps = torch.concat(tps), ... (which raises for an empty list,
   a tensor or an undefined name); accs, f1_scores, ious become one row. *)
EvalMetricsCell ==
    /\ CanRun(6)
    /\ stat_type = "list"
    /\ Len(tps) > 0
    /\ tps' = Concat(tps) /\ fps' = Concat(fps)
    /\ fns' = Concat(fns) /\ tns' = Concat(tns)
    /\ stat_type' = "tensor"
    /\ LET row(metric) == [metric |-> metric, tp |-> tps', fp |-> fps',
                           fn |-> fns', tn |-> tns']
       IN /\ accs' = <<row("accuracy")>>
          /\ f1_scores' = <<row("f1_score")>>
          /\ ious' = <<row("iou_score")>>
    /\ metrics_dim' = 1
    /\ cell_order' = OrderAfter(6)
    /\ UNCHANGED <<hvars, pc, runs, e, batch_idx, losses, gvars, fvars,
                   model_mode, eval_idx, wvars, pvars, dvars>>

----------------------------------------------------------------------------
WeightsInit == WInit /\ POff /\ DOff /\ NOff
WeightsNext == ClassWeightsCell
WeightsSpec == WeightsInit /\ [][WeightsNext]_vars

PipelineInit == PInit /\ WOff /\ DOff /\ NOff
PipelineNext == GetItem \/ GetFeatures \/ NetForward \/ Interpolate
PipelineSpec == PipelineInit /\ [][PipelineNext]_vars

DataInit == DInit /\ WOff /\ POff /\ NOff
DataNext == \/ TrainDatasetCell
            \/ TestCellRead \/ TestCellConstruct \/ TestCellOverride
            \/ TrainGetItem \/ TestGetItem
DataSpec == DataInit /\ [][DataNext]_vars

Init == TrainParams /\ NInit /\ WOff /\ POff /\ DOff
Next == \/ PlotCell
        \/ TrainStart
        \/ Forward \/ Loss \/ ZeroGrad \/ Backward \/ Step \/ Stats \/ Log
        \/ MetricsCell
Spec == Init /\ [][Next]_vars

EvalInit == EvalParams /\ NInit /\ WOff /\ POff /\ DOff
EvalNext == \/ PlotCell
            \/ TrainStart
            \/ Forward \/ Loss \/ ZeroGrad \/ Backward \/ Step \/ Stats \/ Log
            \/ MetricsCell
            \/ EvalResetCell \/ EvalStart \/ EvalBatch \/ EvalMetricsCell
EvalSpec == EvalInit /\ [][EvalNext]_vars

----------------------------------------------------------------------------
(* Claims about get_class_weights (WeightsSpec) *)

WeightsReturned == w_pc = "done"

(* C4: the weights get_class_weights returns are strictly positive and finite,
   sum to 1, and are inversely proportional to the pixel counts: for labels a, b
   present in the masks weight(a) * count(a) = weight(b) * count(b), so that a
   rarer label has the larger weight. *)
C4_InverseFrequencyWeights ==
    WeightsReturned =>
        LET u == UniqueLabels(gt_masks)
            w == class_weights
            cnt(i) == gt_masks[u[i]]
        IN /\ Len(w) = Len(u)
           /\ \A i \in 1 .. Len(w) : w[i][1] > 0 /\ w[i][2] > 0
           /\ RatSum(w) = <<1, 1>>
           /\ \A i, j \in 1 .. Len(w) :
                 /\ RatMul(w[i], <<cnt(i), 1>>) = RatMul(w[j], <<cnt(j), 1>>)
                 /\ cnt(i) < cnt(j) => RatLess(w[j], w[i])

(* C4 witness: weights were returned for a volume with three labels present, two
   of them with different pixel counts. *)
C4_Witness ==
    /\ WeightsReturned
    /\ Len(class_weights) >= 3
    /\ \E a, b \in Labels : 0 < gt_masks[a] /\ gt_masks[a] < gt_masks[b]

(* C5 (as stated): for a label volume whose labels lie in 0..6, get_class_weights
   returns exactly num_classes weights and the weight at position k is the weight
   of class label k. *)
C5_OneWeightPerClass ==
    (WeightsReturned /\ gt_masks[num_classes] = 0) =>
        /\ Len(class_weights) = num_classes
        /\ \A k \in 0 .. num_classes - 1 :
              /\ gt_masks[k] > 0
              /\ UniqueLabels(gt_masks)[k + 1] = k

----------------------------------------------------------------------------
(* Claims about apply_transform and the forward pass (PipelineSpec) *)

Transformed == p_pc \notin {"off", "raw"}
ClassLabels == 0 .. 6

(* C3 (as stated): input_size is a multiple of the patch size, and for a source
   image/mask pair of any height and width apply_transform returns an image and
   a mask whose height and width all equal input_size. *)
C3_FixedResolution ==
    /\ input_size % patch_size = 0
    /\ sample.status = "ok" =>
          /\ sample.image = <<input_size, input_size>>
          /\ sample.mask = <<input_size, input_size>>

(* C6: a mask returned by __getitem__ holds only labels in 0..6; the resized
   mask holds no label absent from the source mask, so a source mask with labels
   in 0..6 never trips the assertion; and when the resized mask holds any other
   label apply_transform raises an AssertionError and returns no sample. *)
C6_MaskLabelValidity ==
    /\ sample.status = "ok" => sample.labels \subseteq ClassLabels
    /\ Transformed =>
          /\ sample.resized \subseteq SourceLabels(src)
          /\ SourceLabels(src) \subseteq ClassLabels => sample.status = "ok"
          /\ ~(sample.resized \subseteq ClassLabels) =>
                /\ sample.status = "AssertionError"
                /\ p_pc = "failed"
                /\ sample.labels = {}

(* C6 witness: the source mask holds the label 7 at a pixel the resize reads,
   among pixels of a class label, and apply_transform raised. *)
C6_Witness ==
    /\ p_pc = "failed"
    /\ sample.status = "AssertionError"
    /\ src.sl = 7 /\ src.bg \in ClassLabels
    /\ 7 \in sample.resized

(* C8 (as stated): for every batch of b images the dataset yields, the number of
   patch tokens per image is num_patches * num_patches, the reshape in
   Net.forward yields exactly b grids, and the upsampled logits have the spatial
   size input_size x input_size of the batch's ground-truth masks. *)
C8_ShapeAgreement ==
    /\ features.status = "ok" => features.shape[2] = num_patches * num_patches
    /\ out.status = "ok" => out.shape[1] = nbatch
    /\ out_upscaled.status = "ok" =>
          /\ out_upscaled.shape[1] = GtMasksShape[1]
          /\ <<out_upscaled.shape[3], out_upscaled.shape[4]>>
                = <<GtMasksShape[2], GtMasksShape[3]>>
          /\ <<out_upscaled.shape[3], out_upscaled.shape[4]>>
                = <<input_size, input_size>>

----------------------------------------------------------------------------
(* Claims about the dataset cells (DataSpec) *)

(* C7: once the test-dataset cell has run, test_dataset.mean and
   test_dataset.std equal train_dataset.mean and train_dataset.std, and every
   sample test_dataset yields is normalized with the training statistics. *)
C7_EvalUsesTrainStatistics ==
    /\ (test_dataset.defined /\ d_pc = "idle") =>
          /\ test_dataset.mean = train_dataset.mean
          /\ test_dataset.std = train_dataset.std
    /\ yielded.ds = "test" =>
          /\ yielded.mean = train_dataset.mean
          /\ yielded.std = train_dataset.std

(* C7 witness: test_dataset yielded a sample, and the statistics its constructor
   computed from the evaluation images differ from the training statistics. *)
C7_Witness ==
    /\ yielded.ds = "test"
    /\ get_mean_std(eval_images)[1] # train_dataset.mean
    /\ get_mean_std(eval_images)[2] # train_dataset.std
    /\ get_mean_std(eval_images)[1] # NaN
    /\ train_dataset.mean # NaN

(* C14 (as stated): for the volume of the training dataset, get_mean_std is
   defined (its mean and std are numbers), its scaling gives every pixel the
   value to_dtype(scale=True) gives the pixel in apply_transform, and the
   scaled pixels minus the mean sum to zero, so the normalized training images
   have zero mean. *)
C14_StatsMatchScaling ==
    train_dataset.defined =>
        LET v == train_dataset.images
            n == Len(v)
            item(i) == getitem("train", train_dataset, i - 1)
        IN /\ train_dataset.mean # NaN /\ train_dataset.std # NaN
           /\ \A i \in 1 .. n : scaled_imgs(v)[i] = item(i).scaled
           /\ RatSum([i \in 1 .. n |-> item(i).scaled]) =
                  RatMul(<<n, 1>>, train_dataset.mean)

----------------------------------------------------------------------------
(* Claims about the training and metrics cells (Spec) *)

ListLengths == {Len(losses), Len(tps), Len(fps), Len(fns), Len(tns)}

(* C1: at the end of every batch iteration (the start of the next one, or the
   end of the cell) losses, tps, fps, fns and tns have the same length, the
   number of batches processed since the training cell started; it is
   epochs * num_batches when the loop completes, and a re-executed training
   cell starts from empty lists. *)
C1_ListsAccumulate ==
    /\ pc = "fwd" => ListLengths = {e * num_batches + batch_idx}
    /\ pc = "done" => ListLengths = {epochs * num_batches}

(* C1 witness: the second execution of the training cell has completed, with
   several epochs of several batches. *)
C1_Witness ==
    /\ pc = "done" /\ runs = 2
    /\ epochs >= 2 /\ num_batches >= 2
    /\ Len(losses) = epochs * num_batches

(* C2: the features carry no gradient, so the loss gradient never reaches the
   transformer: its .grad stays None, no optim.step applies a gradient to it
   and its parameters are never updated, whatever parameters the optimizer
   holds. *)
C2_TransformerFrozen ==
    /\ "dinov2" \notin graph
    /\ grads["dinov2"] = {}
    /\ applied["dinov2"] = {}
    /\ params["dinov2"] = 0

(* C2 witness: the optimizer holds the transformer's parameters too, and
   several steps have updated the head. *)
C2_Witness ==
    /\ "dinov2" \in optim_params /\ "model" \in optim_params
    /\ params["model"] >= 2
    /\ pc = "done"

(* The entries the lists receive during epoch ep (0-based), in order. *)
EpochEntries(kind, ep) == [b \in 1 .. num_batches |-> Entry(kind, ep, b - 1)]

MetricsOfThisRun ==
    /\ metrics_dim = 2
    /\ accs # << >> /\ accs[1].tp # << >> /\ accs[1].tp[1].run = runs

(* C9: after a completed training run the metrics cell produces exactly epochs
   rows in accs, f1_scores and ious, and the k-th row is computed from exactly
   the num_batches entries of the k-th epoch, in order. *)
C9_PerEpochGrouping ==
    (pc = "done" /\ MetricsOfThisRun) =>
        \A m \in {accs, f1_scores, ious} :
            /\ Len(m) = epochs
            /\ \A k \in 1 .. Len(m) :
                  /\ m[k].tp = EpochEntries("tp", k - 1)
                  /\ m[k].fp = EpochEntries("fp", k - 1)
                  /\ m[k].fn = EpochEntries("fn", k - 1)
                  /\ m[k].tn = EpochEntries("tn", k - 1)

(* C9 witness: metrics computed after a completed run of two epochs of at least
   three batches, the last batch smaller than the others. *)
C9_Witness ==
    /\ pc = "done" /\ MetricsOfThisRun
    /\ epochs = 2 /\ Len(accs) = 2
    /\ num_batches >= 3 /\ n_train % batch_size # 0

OptimEvents == <<"forward", "loss", "zero_grad", "backward", "step">>

(* C10: in every batch the events forward, loss, zero_grad, backward, step
   happen in this order, once each, and the gradient optim.step applies is the
   gradient of the current batch's loss alone. *)
C10_StepOrdering ==
    pc \in {"stats", "log"} =>
        /\ events = OptimEvents
        /\ \A p \in Networks : applied[p] \subseteq {<<runs, e, batch_idx>>}
        /\ "model" \in optim_params => applied["model"] = {<<runs, e, batch_idx>>}

(* C10 witness: optim.step has applied the gradient of a batch that is neither
   the first of its epoch nor of the first epoch. *)
C10_Witness ==
    /\ pc = "stats"
    /\ e >= 1 /\ batch_idx >= 1
    /\ "model" \in optim_params
    /\ applied["model"] = {<<runs, e, batch_idx>>}

----------------------------------------------------------------------------
(* Claims about the loss plot (Spec) *)

(* C11: after any sequence of executions of the plot cell and the training
   cell the axes ax_loss refers to hold at most one loss line, and the line an
   update draws plots the complete losses list as of the update, the current
   batch's loss included, after the previous line was removed. *)
C11_SingleLiveLossLine ==
    /\ [](ax_loss > 0 => Len(ax_lines[ax_loss]) <= 1)
    /\ [][(pc = "log" /\ batch_idx % 5 = 0 /\ pc' # "error") =>
             /\ loss_line' = [ax |-> ax_loss', n |-> Len(losses')]
             /\ ax_lines'[ax_loss'] = <<Len(losses')>>
             /\ losses'[Len(losses')] = Entry("loss", e, batch_idx)]_vars

(* C11 witness: the plot cell and the training cell have both run twice, each
   axes holds one line, and the live line shows several losses. *)
C11_Witness ==
    /\ ax_loss = 2 /\ runs = 2 /\ pc = "done"
    /\ Len(ax_lines[1]) = 1 /\ Len(ax_lines[2]) = 1
    /\ loss_line.ax = 2 /\ loss_line.n >= 6

(* The batch index of the iteration that has just ended. *)
LastBatchIdx == IF pc = "fwd" /\ batch_idx > 0 THEN batch_idx - 1
                ELSE num_batches - 1

(* The lists an evaluation over the whole test_loader produces: one entry per
   test batch, in loader order. *)
TestBatches(kind) == [b \in 1 .. num_test_batches |-> EvalEntry(kind, b - 1)]

(* The parameters the completed training cell left. *)
TrainedParams ==
    [p \in Networks |-> IF p = "model" /\ p \in optim_params
                        THEN epochs * num_batches ELSE 0]

(* C12: with the cells executed once in document order, when the evaluation
   loop has ended and when the evaluation metrics are computed, tps, fps, fns,
   tns and losses hold exactly one entry per test batch in test_loader order
   and none of training (the metrics cell concatenates exactly these), and from
   the evaluation reset on the parameters are those training left: evaluation
   steps no optimizer. *)
C12_EvaluationIsolated ==
    /\ (cell_order = 5 /\ pc = "evaluated") =>
          /\ stat_type = "list"
          /\ tps = TestBatches("tp") /\ fps = TestBatches("fp")
          /\ fns = TestBatches("fn") /\ tns = TestBatches("tn")
          /\ losses = TestBatches("loss")
    /\ cell_order = 6 =>
          /\ tps = Concat(TestBatches("tp")) /\ fps = Concat(TestBatches("fp"))
          /\ fns = Concat(TestBatches("fn")) /\ tns = Concat(TestBatches("tn"))
          /\ losses = TestBatches("loss")
          /\ metrics_dim = 1 /\ Len(accs) = 1
          /\ accs[1].tp = tps /\ accs[1].fp = fps
          /\ accs[1].fn = fns /\ accs[1].tn = tns
    /\ cell_order \in {4, 5, 6} => params = TrainedParams

(* C12 witness: after a training that stepped the head, an evaluation over two
   test batches (the last one smaller) has had its metrics computed. *)
C12_Witness ==
    /\ cell_order = 6 /\ pc = "evaluated"
    /\ n_test = 3 /\ batch_size = 2 /\ num_test_batches = 2
    /\ Len(losses) = 2 /\ Len(tps) = 3
    /\ params["model"] > 0 /\ epochs * num_batches > 2

(* C13: the plot is refreshed exactly on the batches whose index within the
   epoch is a multiple of 5, so at the end of every batch iteration the number
   of recorded losses the plotted line does not show is the batch index modulo
   5, at most 4, and 0 after the first batch of an epoch. *)
C13_BoundedStaleness ==
    (pc \in {"fwd", "done"} /\ Len(losses) > 0 /\ loss_line.ax # 0) =>
        LET stale == Len(losses) - loss_line.n
        IN /\ stale = LastBatchIdx % 5
           /\ stale <= 4
           /\ LastBatchIdx = 0 => stale = 0

(* C13 witness: the sixth batch of the second epoch has ended and refreshed
   the plot, after four batches that did not. *)
C13_Witness ==
    /\ pc = "done" /\ e = 1 /\ num_batches = 6
    /\ loss_line.ax # 0
    /\ Len(losses) = 12 /\ loss_line.n = 12

====
